---- MODULE Spec2Model ----
(***************************************************************************)
(* Model of src/restaurant_case_3rd_ed.py: the MenuItem hierarchy, Order,  *)
(* CashPayment, OrderManager and Menu classes.                             *)
(*                                                                         *)
(* Objects are held by reference: an Order stores item ids, the           *)
(* OrderManager stores order ids, and the Menu's dict is an object of a    *)
(* heap.  Money is a whole number of price units; Python floats are        *)
(* abstracted to exact arithmetic, and an order's total is kept in tenths  *)
(* of a price unit so that the factor 0.9 is the exact factor 9/10.        *)
(*                                                                         *)
(* ret is the last call made and what it returned or raised:               *)
(*   op  the method called          obj  the receiver (an id, or 0)        *)
(*   arg its argument(s)            val  the value returned                *)
(*   err the exception raised ("" when none)                               *)
(***************************************************************************)
EXTENDS Integers, Sequences, FiniteSets, TLC

VARIABLES
    items,        \* MenuItem objects: id -> [cls, name, price]
    order_items,  \* Order._order_items: order id -> sequence of <<item id, quantity>>
    add_log,      \* history: per order, the add_menu_item calls made, with the price then
    orders,       \* OrderManager._orders: the Queue's contents, oldest first
    put_log,      \* history: the orders passed to add_order
    got_log,      \* history: the orders process_order returned (None excluded)
    cash_given,   \* CashPayment._cash_given
    heap,         \* dict objects: ref -> (category -> sequence of [name, price])
    got,          \* the reference the caller holds from get_menu (NoRef: none yet)
    ret           \* the last call and its outcome

vars == <<items, order_items, add_log, orders, put_log, got_log, cash_given, heap, got, ret>>

---------------------------------------------------------------------------
(* Bounds and input sets *)

MaxPrice == 1
MaxEntries == 2
MaxItems == 2
MaxAdds == 4
MaxMoney == 10
MaxRecords == 2

None == 0
Scale == 10
DiscountTenths == 9

Prices == -1..MaxPrice
Quantities == {0, 1, 2}
SharedQuantities == {1, 2}
Classes == {"MenuItem", "Beverage", "Appetizer", "Maincourse"}
Names == {"Coke", "Tea"}
OrderIds == {1, 2}
Money == -1..MaxMoney

Call(op, obj, arg, val, err) ==
    [op |-> op, obj |-> obj, arg |-> arg, val |-> val, err |-> err]

NoCall == Call("", 0, 0, None, "")

RECURSIVE SumOver(_, _)
SumOver(S, f) ==
    IF S = {} THEN 0
    ELSE LET x == CHOOSE y \in S : TRUE IN f[x] + SumOver(S \ {x}, f)

---------------------------------------------------------------------------
(* MenuItem and its subclasses *)

EmptyItems == [i \in {} |-> 0]

\* The items two orders share in Spec.
SharedItems ==
    <<[cls |-> "Beverage", name |-> "Coke", price |-> 1],
      [cls |-> "Maincourse", name |-> "Spaghetti", price |-> 1]>>

\* The items an order is built from in SpecOrder: one of each subclass.
MenuSetItems ==
    <<[cls |-> "Beverage", name |-> "Coke", price |-> 1],
      [cls |-> "Maincourse", name |-> "Spaghetti", price |-> 1],
      [cls |-> "Appetizer", name |-> "Spring Rolls", price |-> 1]>>

\* MenuItem.__init__, reached through every subclass's super().__init__:
\* name and price are stored as given, with no check.
Construct(cls, name, price) ==
    /\ Cardinality(DOMAIN items) < MaxItems
    /\ LET id == Cardinality(DOMAIN items) + 1 IN
        /\ items' = [i \in DOMAIN items \cup {id} |->
                        IF i = id THEN [cls |-> cls, name |-> name, price |-> price]
                        ELSE items[i]]
        /\ ret' = Call(cls, id, <<name, price>>, None, "")
    /\ UNCHANGED <<order_items, add_log, orders, put_log, got_log, cash_given, heap, got>>

set_name(i, name) ==
    /\ items' = [items EXCEPT ![i].name = name]
    /\ ret' = Call("set_name", i, name, None, "")
    /\ UNCHANGED <<order_items, add_log, orders, put_log, got_log, cash_given, heap, got>>

\* A set_price that stores first and checks afterwards.
set_priceMutStoreFirst(i, price) ==
    /\ items' = [items EXCEPT ![i].price = price]
    /\ ret' = Call("set_price", i, price, None, IF price < 0 THEN "ValueError" ELSE "")
    /\ UNCHANGED <<order_items, add_log, orders, put_log, got_log, cash_given, heap, got>>

set_price(i, price) ==
    /\ IF price < 0
       THEN /\ ret' = Call("set_price", i, price, None, "ValueError")
            /\ UNCHANGED items
       ELSE /\ items' = [items EXCEPT ![i].price = price]
            /\ ret' = Call("set_price", i, price, None, "")
    /\ UNCHANGED <<order_items, add_log, orders, put_log, got_log, cash_given, heap, got>>

get_price(i) == items[i].price

total_price(i, quantity) == items[i].price * quantity

isinstance(i, cls) == items[i].cls = cls

---------------------------------------------------------------------------
(* Order *)

TotalEntries == SumOver(OrderIds, [o \in OrderIds |-> Len(order_items[o])])

add_menu_item(o, i, quantity) ==
    /\ TotalEntries < MaxEntries
    /\ order_items' = [order_items EXCEPT ![o] = Append(@, <<i, quantity>>)]
    /\ add_log' = [add_log EXCEPT ![o] =
                      Append(@, [item |-> i, qty |-> quantity, price |-> items[i].price])]
    /\ ret' = Call("add_menu_item", o, <<i, quantity>>, None, "")
    /\ UNCHANGED <<items, orders, put_log, got_log, cash_given, heap, got>>

\* any(isinstance(item, Maincourse) for item, _ in self._order_items)
has_maincourse(entries) ==
    \E k \in 1..Len(entries) : isinstance(entries[k][1], "Maincourse")

\* The for loop of calculate_total_price, in tenths of a price unit.
RECURSIVE accumulate(_, _, _)
accumulate(entries, hm, total) ==
    IF entries = <<>> THEN total
    ELSE LET item == Head(entries)[1]
             quantity == Head(entries)[2]
         IN  IF hm /\ isinstance(item, "Beverage")
             THEN accumulate(Tail(entries), hm,
                             total + total_price(item, quantity) * DiscountTenths)
             ELSE accumulate(Tail(entries), hm,
                             total + total_price(item, quantity) * Scale)

\* A discount that looks for a Maincourse only among the entries before the beverage.
RECURSIVE accumulateSeen(_, _, _)
accumulateSeen(entries, seen, total) ==
    IF entries = <<>> THEN total
    ELSE LET item == Head(entries)[1]
             quantity == Head(entries)[2]
             now == seen \/ isinstance(item, "Maincourse")
         IN  IF now /\ isinstance(item, "Beverage")
             THEN accumulateSeen(Tail(entries), now,
                                 total + total_price(item, quantity) * DiscountTenths)
             ELSE accumulateSeen(Tail(entries), now,
                                 total + total_price(item, quantity) * Scale)

calculate_total_priceMutSeen(o) == accumulateSeen(order_items[o], FALSE, 0)

\* A total computed from the prices the items had when they were added.
calculate_total_priceMutSnapshot(o) ==
    LET hm == has_maincourse(order_items[o]) IN
    SumOver(1..Len(add_log[o]),
            [k \in 1..Len(add_log[o]) |->
                add_log[o][k].price * add_log[o][k].qty *
                (IF hm /\ isinstance(add_log[o][k].item, "Beverage")
                 THEN DiscountTenths ELSE Scale)])

calculate_total_price(o) ==
    accumulate(order_items[o], has_maincourse(order_items[o]), 0)

call_calculate_total_price(o) ==
    /\ ret' = Call("calculate_total_price", o, 0, calculate_total_price(o), "")
    /\ UNCHANGED <<items, order_items, add_log, orders, put_log, got_log, cash_given, heap, got>>

---------------------------------------------------------------------------
(* OrderManager: queue.Queue() is unbounded, put appends, get takes the oldest *)

len_manager == Len(orders)

\* An add_order onto the front of the queue.
add_orderMutFront(order) ==
    /\ Len(put_log) < MaxAdds
    /\ orders' = <<order>> \o orders
    /\ put_log' = Append(put_log, order)
    /\ ret' = Call("add_order", 0, order, None, "")
    /\ UNCHANGED <<items, order_items, add_log, got_log, cash_given, heap, got>>

add_order(order) ==
    /\ Len(put_log) < MaxAdds
    /\ orders' = Append(orders, order)
    /\ put_log' = Append(put_log, order)
    /\ ret' = Call("add_order", 0, order, None, "")
    /\ UNCHANGED <<items, order_items, add_log, got_log, cash_given, heap, got>>

\* A process_order that returns the oldest order and leaves it in the queue.
process_orderMutPeek ==
    /\ IF orders # <<>>
       THEN /\ ret' = Call("process_order", 0, 0, Head(orders), "")
            /\ got_log' = Append(got_log, Head(orders))
            /\ UNCHANGED orders
       ELSE /\ ret' = Call("process_order", 0, 0, None, "")
            /\ UNCHANGED <<orders, got_log>>
    /\ UNCHANGED <<items, order_items, add_log, put_log, cash_given, heap, got>>

\* A process_order that takes an order only while another one waits behind it.
process_orderMutOffByOne ==
    /\ IF Len(orders) > 1
       THEN /\ ret' = Call("process_order", 0, 0, Head(orders), "")
            /\ orders' = Tail(orders)
            /\ got_log' = Append(got_log, Head(orders))
       ELSE /\ ret' = Call("process_order", 0, 0, None, "")
            /\ UNCHANGED <<orders, got_log>>
    /\ UNCHANGED <<items, order_items, add_log, put_log, cash_given, heap, got>>

process_order ==
    /\ IF orders # <<>>
       THEN /\ ret' = Call("process_order", 0, 0, Head(orders), "")
            /\ orders' = Tail(orders)
            /\ got_log' = Append(got_log, Head(orders))
       ELSE /\ ret' = Call("process_order", 0, 0, None, "")
            /\ UNCHANGED <<orders, got_log>>
    /\ UNCHANGED <<items, order_items, add_log, put_log, cash_given, heap, got>>

\* One turn of the example's loop: while len(order_manager) > 0: process_order()
drain_step ==
    /\ len_manager > 0
    /\ process_order

---------------------------------------------------------------------------
(* CashPayment *)

Outcome(status, amount) == [status |-> status, amount |-> amount]

\* A pay that asks for strictly more cash than the amount.
payMutStrict(amount) ==
    /\ IF cash_given > amount
       THEN ret' = Call("pay", 0, amount, Outcome("paid", cash_given - amount), "")
       ELSE ret' = Call("pay", 0, amount, Outcome("insufficient", amount - cash_given), "")
    /\ UNCHANGED <<items, order_items, add_log, orders, put_log, got_log, cash_given, heap, got>>

\* val is the outcome pay prints: "paid" with the change, or "insufficient" with
\* the amount still needed; pay raises nothing.
pay(amount) ==
    /\ IF cash_given >= amount
       THEN ret' = Call("pay", 0, amount, Outcome("paid", cash_given - amount), "")
       ELSE ret' = Call("pay", 0, amount, Outcome("insufficient", amount - cash_given), "")
    /\ UNCHANGED <<items, order_items, add_log, orders, put_log, got_log, cash_given, heap, got>>

---------------------------------------------------------------------------
(* Menu: self.menu_items is a reference to one dict object of the heap.  A  *)
(* dict is modelled with the lists and records it holds as its value: the   *)
(* operations below reach them only through the dict.                       *)

MenuRef == 1
CopyRef == MenuRef + 1
NoRef == None
Categories == {"Beverage", "Maincourse"}
MenuPrices == {1, 2}

EmptyDict == [c \in {} |-> <<>>]

Put(d, k, v) == [c \in DOMAIN d \cup {k} |-> IF c = k THEN v ELSE d[c]]

menu_items == heap[MenuRef]

add_item(category, name, price) ==
    /\ category \in DOMAIN menu_items => Len(menu_items[category]) < MaxRecords
    /\ LET old == IF category \in DOMAIN menu_items THEN menu_items[category] ELSE <<>>
       IN  heap' = [heap EXCEPT ![MenuRef] =
                       Put(@, category, Append(old, [name |-> name, price |-> price]))]
    /\ ret' = Call("add_item", 0, <<category, name, price>>, None, "")
    /\ UNCHANGED <<items, order_items, add_log, orders, put_log, got_log, cash_given, got>>

\* The index of the first record of the list with that name, 0 when there is none.
FirstMatch(list, name) ==
    IF \E k \in 1..Len(list) : list[k].name = name
    THEN CHOOSE k \in 1..Len(list) :
            /\ list[k].name = name
            /\ \A j \in 1..(k - 1) : list[j].name # name
    ELSE 0

update_item(category, old_name, new_name, new_price) ==
    /\ LET k == IF category \in DOMAIN menu_items
                THEN FirstMatch(menu_items[category], old_name) ELSE 0
       IN  IF k # 0
           THEN /\ heap' = [heap EXCEPT ![MenuRef][category][k] =
                               [name |-> new_name, price |-> new_price]]
                /\ ret' = Call("update_item", 0,
                               <<category, old_name, new_name, new_price>>, TRUE, "")
           ELSE /\ UNCHANGED heap
                /\ ret' = Call("update_item", 0,
                               <<category, old_name, new_name, new_price>>, FALSE, "")
    /\ UNCHANGED <<items, order_items, add_log, orders, put_log, got_log, cash_given, got>>

delete_item(category, name) ==
    /\ IF category \in DOMAIN menu_items
       THEN /\ heap' = [heap EXCEPT ![MenuRef][category] =
                           SelectSeq(@, LAMBDA r : r.name # name)]
            /\ ret' = Call("delete_item", 0, <<category, name>>, TRUE, "")
       ELSE /\ UNCHANGED heap
            /\ ret' = Call("delete_item", 0, <<category, name>>, FALSE, "")
    /\ UNCHANGED <<items, order_items, add_log, orders, put_log, got_log, cash_given, got>>

\* A get_menu that returns a copy of the dict, made at the call.
get_menuMutCopy ==
    /\ heap' = Put(heap, CopyRef, heap[MenuRef])
    /\ got' = CopyRef
    /\ ret' = Call("get_menu", 0, 0, CopyRef, "")
    /\ UNCHANGED <<items, order_items, add_log, orders, put_log, got_log, cash_given>>

\* return self.menu_items: the caller gets the reference itself.
get_menu ==
    /\ got' = MenuRef
    /\ ret' = Call("get_menu", 0, 0, MenuRef, "")
    /\ UNCHANGED <<items, order_items, add_log, orders, put_log, got_log, cash_given, heap>>

\* The caller changes the value get_menu returned: returned.clear()
caller_clear ==
    /\ got # NoRef
    /\ heap' = [heap EXCEPT ![got] = EmptyDict]
    /\ ret' = Call("clear", got, 0, None, "")
    /\ UNCHANGED <<items, order_items, add_log, orders, put_log, got_log, cash_given, got>>

---------------------------------------------------------------------------
(* Specifications *)

NoOrders == [o \in OrderIds |-> <<>>]

ItemsIdle == items = EmptyItems /\ order_items = NoOrders /\ add_log = NoOrders
QueueIdle == orders = <<>> /\ put_log = <<>> /\ got_log = <<>>
PayIdle == cash_given = 0
MenuIdle == heap = [r \in {MenuRef} |-> EmptyDict] /\ got = NoRef

\* Two orders over one Beverage and one Maincourse, whose prices change.
Init ==
    /\ items = SharedItems
    /\ order_items = NoOrders
    /\ add_log = NoOrders
    /\ QueueIdle /\ PayIdle /\ MenuIdle
    /\ ret = NoCall

Next ==
    \/ \E o \in OrderIds, i \in DOMAIN items, q \in SharedQuantities : add_menu_item(o, i, q)
    \/ \E i \in DOMAIN items, p \in Prices : set_price(i, p)
    \/ \E o \in OrderIds : call_calculate_total_price(o)

Spec == Init /\ [][Next]_vars

\* Orders over one Beverage, one Maincourse and one Appetizer, of any prices.
InitOrder ==
    /\ \E p \in [DOMAIN MenuSetItems -> 0..MaxPrice] :
          items = [i \in DOMAIN MenuSetItems |-> [MenuSetItems[i] EXCEPT !.price = p[i]]]
    /\ order_items = NoOrders
    /\ add_log = NoOrders
    /\ QueueIdle /\ PayIdle /\ MenuIdle
    /\ ret = NoCall

NextOrder ==
    \/ \E o \in OrderIds, i \in DOMAIN items, q \in Quantities : add_menu_item(o, i, q)
    \/ \E o \in OrderIds : call_calculate_total_price(o)

SpecOrder == InitOrder /\ [][NextOrder]_vars

\* Menu items of any class, built and changed.
InitItem == ItemsIdle /\ QueueIdle /\ PayIdle /\ MenuIdle /\ ret = NoCall

NextItem ==
    \/ \E c \in Classes, n \in Names, p \in Prices : Construct(c, n, p)
    \/ \E i \in DOMAIN items, p \in Prices : set_price(i, p)
    \/ \E i \in DOMAIN items, n \in Names : set_name(i, n)

SpecItem == InitItem /\ [][NextItem]_vars

\* An OrderManager and its callers.
InitQueue == ItemsIdle /\ QueueIdle /\ PayIdle /\ MenuIdle /\ ret = NoCall

NextQueue ==
    \/ \E o \in OrderIds : add_order(o)
    \/ process_order
    \/ drain_step

SpecQueue == InitQueue /\ [][NextQueue]_vars

\* A CashPayment constructed with any cash_given.
InitPay == ItemsIdle /\ QueueIdle /\ cash_given \in Money /\ MenuIdle /\ ret = NoCall

NextPay == \E a \in Money : pay(a)

SpecPay == InitPay /\ [][NextPay]_vars

\* A Menu and a caller holding what get_menu returned.
InitMenu == ItemsIdle /\ QueueIdle /\ PayIdle /\ MenuIdle /\ ret = NoCall

NextMenu ==
    \/ \E c \in Categories, n \in Names, p \in MenuPrices : add_item(c, n, p)
    \/ \E c \in Categories, o \in Names, n \in Names, p \in MenuPrices : update_item(c, o, n, p)
    \/ \E c \in Categories, n \in Names : delete_item(c, n)
    \/ get_menu
    \/ caller_clear

SpecMenu == InitMenu /\ [][NextMenu]_vars

---------------------------------------------------------------------------
(* Claims *)

IsPrefix(s, t) ==
    /\ Len(s) <= Len(t)
    /\ \A k \in 1..Len(s) : s[k] = t[k]

\* C1: the orders process_order has returned (None excluded) are, in order, a
\* prefix of the orders passed to add_order: none skipped, repeated, reordered
\* or invented; and an order just returned is the last of that prefix.
FifoPrefix_C1 ==
    /\ IsPrefix(got_log, put_log)
    /\ (ret.op = "process_order" /\ ret.val # None)
          => (got_log # <<>> /\ ret.val = put_log[Len(got_log)])

\* Two different orders came back in the order they went in, a third still waits.
FifoPrefix_C1_Witness ==
    /\ Len(got_log) = 2
    /\ got_log[1] # got_log[2]
    /\ orders # <<>>
    /\ ret.op = "process_order"

\* C2: len(manager) is the number of add_order calls minus the number of
\* process_order calls that returned an order, and is never negative.
LenIsAddsMinusGets_C2 ==
    /\ len_manager = Len(put_log) - Len(got_log)
    /\ len_manager >= 0

\* Three orders added, two returned, then a call that returned one of them.
LenIsAddsMinusGets_C2_Witness ==
    /\ Len(put_log) = 3
    /\ Len(got_log) = 2
    /\ len_manager = 1
    /\ ret.op = "process_order"

\* C3: process_order on an empty queue returns None, raises nothing and leaves
\* the queue empty, every time; add_order on the empty queue then holds exactly
\* that order, and process_order on it returns that order and empties the queue.
EmptyProcess_C3 ==
    [][ /\ (orders = <<>> /\ ret'.op = "process_order")
            => (ret'.val = None /\ ret'.err = "" /\ orders' = <<>>)
        /\ (orders = <<>> /\ ret'.op = "add_order")
            => orders' = <<ret'.arg>>
        /\ (Len(orders) = 1 /\ ret'.op = "process_order")
            => (ret'.val = orders[1] /\ ret'.err = "" /\ orders' = <<>>)
      ]_vars

\* The queue was drained and one more process_order returned None.
EmptyProcess_C3_Witness ==
    /\ ret.op = "process_order"
    /\ ret.val = None
    /\ orders = <<>>
    /\ Len(put_log) >= 1
    /\ got_log = put_log

EntryPrice(e) == items[e[1]].price * e[2]

\* The total the discount law gives, in tenths of a price unit.
LawTotal(entries) ==
    LET idx == 1..Len(entries)
        main == {k \in idx : items[entries[k][1]].cls = "Maincourse"}
        bev == {k \in idx : items[entries[k][1]].cls = "Beverage"}
        sub == [k \in idx |-> EntryPrice(entries[k])]
    IN  IF main # {}
        THEN DiscountTenths * SumOver(bev, sub) + Scale * SumOver(idx \ bev, sub)
        ELSE Scale * SumOver(idx, sub)

\* C4: calculate_total_price returns the sum of price*quantity over the entries,
\* with the Beverage entries' part multiplied by 0.9 exactly when some entry,
\* anywhere in the order, is a Maincourse; nothing else is discounted.
DiscountLaw_C4 ==
    ret.op = "calculate_total_price" => ret.val = LawTotal(order_items[ret.obj])

\* A total with a discounted Beverage entered before the Maincourse.
DiscountLaw_C4_Witness ==
    /\ ret.op = "calculate_total_price"
    /\ Len(order_items[ret.obj]) = 2
    /\ items[order_items[ret.obj][1][1]].cls = "Beverage"
    /\ items[order_items[ret.obj][2][1]].cls = "Maincourse"
    /\ EntryPrice(order_items[ret.obj][1]) > 0
    /\ ret.val = DiscountTenths * EntryPrice(order_items[ret.obj][1])
                    + Scale * EntryPrice(order_items[ret.obj][2])

\* C5: set_price with a negative value raises and leaves the item's price and
\* name as they were; with a value >= 0 it raises nothing and the price becomes
\* that value (the name stays).
SetPrice_C5 ==
    [][ \A i \in DOMAIN items :
            (ret'.op = "set_price" /\ ret'.obj = i) =>
                IF ret'.arg < 0
                THEN ret'.err = "ValueError" /\ items' = items
                ELSE /\ ret'.err = ""
                     /\ items'[i].price = ret'.arg
                     /\ items'[i].name = items[i].name
                     /\ \A j \in DOMAIN items \ {i} : items'[j] = items[j]
      ]_vars

\* A refused set_price on an item whose price is positive.
SetPrice_C5_Witness ==
    /\ ret.op = "set_price"
    /\ ret.arg < 0
    /\ ret.err = "ValueError"
    /\ items[ret.obj].price > 0

\* C6: the price of every MenuItem is >= 0 in every reachable state.
PriceNonNegative_C6 ==
    \A i \in DOMAIN items : items[i].price >= 0

\* C7: add_menu_item with a quantity <= 0 fails with InvalidQuantityError, so
\* every entry of every order has a positive quantity.
PositiveQuantity_C7 ==
    /\ \A o \in OrderIds : \A k \in 1..Len(order_items[o]) : order_items[o][k][2] >= 1
    /\ (ret.op = "add_menu_item" /\ ret.arg[2] <= 0) => ret.err = "InvalidQuantityError"

\* C8: pay raises nothing, leaves cash_given alone and reports "paid" with the
\* change cash_given - amount when cash_given >= amount, "insufficient" with the
\* shortfall amount - cash_given otherwise; the reported amount is never negative.
CashSettlement_C8 ==
    [][ ret'.op = "pay" =>
            /\ cash_given' = cash_given
            /\ ret'.err = ""
            /\ IF cash_given >= ret'.arg
               THEN ret'.val = Outcome("paid", cash_given - ret'.arg)
               ELSE ret'.val = Outcome("insufficient", ret'.arg - cash_given)
            /\ ret'.val.amount >= 0
      ]_vars

\* Exactly the amount was tendered: paid, with no change.
CashSettlement_C8_Witness ==
    /\ ret.op = "pay"
    /\ ret.arg = cash_given
    /\ ret.val = Outcome("paid", 0)

\* What an entry adds to the total at the items' current prices.
Contribution(entries, k) ==
    LET i == entries[k][1] IN
    IF items[i].cls = "Beverage"
          /\ \E j \in 1..Len(entries) : items[entries[j][1]].cls = "Maincourse"
    THEN items[i].price * entries[k][2] * DiscountTenths
    ELSE items[i].price * entries[k][2] * Scale

\* C9: an order's entries are exactly the pairs added, in the order added, and
\* calculate_total_price returns the discount-rule sum over the current entries
\* at the items' current prices, whatever the prices were when they were added.
NeverStale_C9 ==
    /\ \A o \in OrderIds :
          order_items[o] =
              [k \in 1..Len(add_log[o]) |-> <<add_log[o][k].item, add_log[o][k].qty>>]
    /\ ret.op = "calculate_total_price" =>
          ret.val = SumOver(1..Len(order_items[ret.obj]),
                            [k \in 1..Len(order_items[ret.obj]) |->
                                Contribution(order_items[ret.obj], k)])

\* Two orders hold the same item, its price was changed after both added it, and
\* the total just returned is not the one the prices at add time would give.
NeverStale_C9_Witness ==
    /\ ret.op = "calculate_total_price"
    /\ \E i \in DOMAIN items :
          /\ \A o \in OrderIds : \E k \in 1..Len(add_log[o]) :
                /\ add_log[o][k].item = i
                /\ add_log[o][k].price # items[i].price
                /\ add_log[o][k].qty > 0
    /\ ret.val # calculate_total_priceMutSnapshot(ret.obj)

MenuOps == {"add_item", "update_item", "delete_item"}

\* C10 as stated: a value get_menu returned is not changed by a later add_item,
\* update_item or delete_item, and changing it does not change the menu's store.
Snapshot_C10 ==
    [][ /\ (got # NoRef /\ ret'.op \in MenuOps) => heap'[got] = heap[got]
        /\ ret'.op = "clear" => heap'[MenuRef] = heap[MenuRef]
      ]_vars

\* C10 amended: get_menu returns the menu's own mapping, not a copy: what the
\* caller holds equals what the menu stores at every later time, and clearing
\* it clears the menu's store.
LiveReference_C10 ==
    /\ got # NoRef => heap[got] = menu_items
    /\ (got # NoRef /\ ret.op = "clear") => menu_items = EmptyDict

\* After get_menu an add_item was made, and the caller's value shows the record.
LiveReference_C10_Witness ==
    /\ got # NoRef
    /\ ret.op = "add_item"
    /\ ret.arg[1] \in DOMAIN heap[got]
    /\ heap[got][ret.arg[1]] # <<>>

====
